---- MODULE Spec2Model ----
(***************************************************************************)
(* Model of excelerator (src/src/lib.rs): header location over a decoded   *)
(* sheet, the WorkbookData view, RowsIterator and RowData.                 *)
(*                                                                         *)
(* Strings are sequences of one-character strings, so that to_string and   *)
(* parse are computed rather than assumed.  Option/Result values are       *)
(* records with a tag field and the same fields in every variant.          *)
(*                                                                         *)
(* A u32 is a pair <<hi, lo>> of 16-bit halves (value hi * 2^16 + lo):     *)
(* TLC's integers end at 2^31 - 1, and row numbers up to 2^32 - 1 matter   *)
(* to `first_row += 1` and `current_row += 1`.  overflow_checks is the     *)
(* build's setting: on (debug), an overflowing u32 operation panics; off   *)
(* (release), it wraps.                                                    *)
(***************************************************************************)
EXTENDS Integers, Sequences, FiniteSets

VARIABLES path, workbook, overflow_checks, pc, result, iters, out

vars == <<path, workbook, overflow_checks, pc, result, iters, out>>

(* ------------------------------ bounds --------------------------------- *)
MaxRows == 3
MaxCols == 3
MaxCells == 6
MaxStart == 1
MaxTopGap == 1
MaxSheets == 2
MaxIters == 2
MaxYield == 4

(* -------------------------------- u32 ---------------------------------- *)
U32Half == 65536

(* The u32 of a natural number below 2^31. *)
U32(n) == <<n \div U32Half, n % U32Half>>

U32Zero == <<0, 0>>
U32Max == <<U32Half - 1, U32Half - 1>>

U32Lt(a, b) == a[1] < b[1] \/ (a[1] = b[1] /\ a[2] < b[2])
U32Gt(a, b) == U32Lt(b, a)
U32Ge(a, b) == ~U32Lt(a, b)

(* a + n for a natural n below 2^16: the wrapped sum, and whether the true *)
(* sum exceeds 2^32 - 1.                                                   *)
U32Add(a, n) ==
  LET lo == a[2] + n
      hi == a[1] + (lo \div U32Half)
  IN [v |-> <<hi % U32Half, lo % U32Half>>, overflow |-> hi >= U32Half]

(* a - b: the wrapped difference, and whether the true one is negative. *)
U32Sub(a, b) ==
  LET lo == a[2] - b[2]
      hi == a[1] - b[1] - (IF lo < 0 THEN 1 ELSE 0)
  IN [v |-> <<IF hi < 0 THEN hi + U32Half ELSE hi,
              IF lo < 0 THEN lo + U32Half ELSE lo>>,
      overflow |-> hi < 0]

(* `as usize` of a u32 below 2^31. *)
U32ToNat(a) == a[1] * U32Half + a[2]

(* ------------------------------ strings -------------------------------- *)
StrA == <<"A">>
StrB == <<"B">>
StrEmpty == <<>>

DigitChars == <<"0", "1", "2", "3", "4", "5", "6", "7", "8", "9">>

I32Max == 2147483647

RECURSIVE FmtNat(_)
FmtNat(n) == IF n < 10 THEN <<DigitChars[n + 1]>>
             ELSE FmtNat(n \div 10) \o <<DigitChars[(n % 10) + 1]>>

FmtInt(n) == IF n < 0 THEN <<"-">> \o FmtNat(0 - n) ELSE FmtNat(n)

IsDigit(c) == \E d \in 1..10 : DigitChars[d] = c

DigitVal(c) == (CHOOSE d \in 1..10 : DigitChars[d] = c) - 1

RECURSIVE DigitsVal(_, _)
DigitsVal(s, acc) == IF s = <<>> THEN acc
                     ELSE DigitsVal(Tail(s), acc * 10 + DigitVal(Head(s)))

(* <i32 as FromStr>::from_str: optional sign, then one or more digits,     *)
(* value within the i32 range.                                             *)
ParseI32(s) ==
  LET neg  == s # <<>> /\ Head(s) = "-"
      sign == s # <<>> /\ Head(s) \in {"-", "+"}
      body == IF sign THEN Tail(s) ELSE s
      good == body # <<>> /\ \A k \in 1..Len(body) : IsDigit(body[k])
      mag  == IF good THEN DigitsVal(body, 0) ELSE 0
      v    == IF neg THEN 0 - mag ELSE mag
  IN IF good /\ v <= I32Max /\ v >= 0 - I32Max - 1
       THEN [ok |-> TRUE, v |-> v]
       ELSE [ok |-> FALSE, v |-> 0]

(* --------------------------- calamine cells ---------------------------- *)
DEmpty == [t |-> "Empty", s |-> <<>>, i |-> 0]
DString(s) == [t |-> "String", s |-> s, i |-> 0]
DInt(n) == [t |-> "Int", s |-> <<>>, i |-> n]

(* DataType's Display: Empty prints nothing, Int prints its decimal form. *)
to_string(d) == CASE d.t = "Empty" -> StrEmpty
                 [] d.t = "String" -> d.s
                 [] d.t = "Int" -> FmtInt(d.i)

(* --------------------------- calamine Range ---------------------------- *)
(* start/end are absolute (row, col) pairs of u32; inner holds the rows of *)
(* the bounding box.                                                       *)
EmptyRange == [start |-> <<U32Zero, U32Zero>>, end |-> <<U32Zero, U32Zero>>,
               inner |-> <<>>]

(* The range of the rows `rows` whose first cell is at (r0, c0); its end   *)
(* must be a u32.                                                          *)
MkRange(r0, c0, rows) ==
  [start |-> <<r0, c0>>,
   end   |-> <<U32Add(r0, Len(rows) - 1).v, U32Add(c0, Len(rows[1]) - 1).v>>,
   inner |-> rows]

NoneV == [some |-> FALSE, v |-> <<>>]
SomeV(x) == [some |-> TRUE, v |-> x]

RangeStart(range) == IF range.inner = <<>> THEN NoneV ELSE SomeV(range.start)
RangeEnd(range) == IF range.inner = <<>> THEN NoneV ELSE SomeV(range.end)

(* Range::get_value takes an absolute position. *)
RangeGetValue(range, r, c) ==
  IF /\ range.inner # <<>>
     /\ U32Ge(r, range.start[1]) /\ U32Ge(range.end[1], r)
     /\ U32Ge(c, range.start[2]) /\ U32Ge(range.end[2], c)
    THEN SomeV(range.inner[U32ToNat(U32Sub(r, range.start[1]).v) + 1]
                          [U32ToNat(U32Sub(c, range.start[2]).v) + 1])
    ELSE NoneV

(* ------------------------------ results -------------------------------- *)
NoData == [header |-> <<>>, range |-> EmptyRange, first_row |-> U32Zero,
           last_row |-> U32Zero, first_col |-> U32Zero, last_col |-> U32Zero]

LoadOk(data) == [tag |-> "Ok", data |-> data, err |-> "", filename |-> "",
                 sheet_name |-> ""]
CalamineError(e) == [tag |-> "CalamineError", data |-> NoData, err |-> e,
                     filename |-> "", sheet_name |-> ""]
LoadEmpty(f) == [tag |-> "Empty", data |-> NoData, err |-> "", filename |-> f,
                 sheet_name |-> ""]
LoadEmptySheet(f, s) == [tag |-> "EmptySheet", data |-> NoData, err |-> "",
                         filename |-> f, sheet_name |-> s]
NoResult == [tag |-> "None", data |-> NoData, err |-> "", filename |-> "",
             sheet_name |-> ""]
(* The call did not return: an arithmetic overflow panicked. *)
LoadPanic == [tag |-> "Panic", data |-> NoData, err |-> "", filename |-> "",
              sheet_name |-> ""]

(* ----------------------- header location (40-81) ----------------------- *)
RowStrings(row) == [k \in 1..Len(row) |-> to_string(row[k])]

CountCols(strs) == Cardinality({k \in 1..Len(strs) : strs[k] # StrEmpty})

(* Variant: entry().or_insert(), the first occurrence of a name is kept. *)
RECURSIVE HeaderInsert_KeepFirst(_, _, _)
HeaderInsert_KeepFirst(h, strs, k) ==
  IF k > Len(strs) THEN h
  ELSE HeaderInsert_KeepFirst([n \in (DOMAIN h) \cup {strs[k]} |->
                                 IF n \in DOMAIN h THEN h[n] ELSE U32(k - 1)],
                              strs, k + 1)

(* collect() into a HashMap: pairs (s, i as u32) are inserted left to      *)
(* right and a later insert replaces the value of an equal key.            *)
RECURSIVE HeaderInsert(_, _, _)
HeaderInsert(h, strs, k) ==
  IF k > Len(strs) THEN h
  ELSE HeaderInsert([n \in (DOMAIN h) \cup {strs[k]} |->
                       IF n = strs[k] THEN U32(k - 1) ELSE h[n]],
                    strs, k + 1)

HeaderCollect(strs) == HeaderInsert(<<>>, strs, 1)

(* The loop of from_workbook_sheet_name: k is the position of rows.next(), *)
(* first_row the counter incremented before each row is read (also before  *)
(* the read that finds the rows exhausted).                                *)
RECURSIVE LocateLoop(_, _, _, _, _, _, _, _)
LocateLoop(range, first_row, first_col, last_row, last_col, min_cols, k, checks) ==
  LET inc  == U32Add(first_row, 1)
      strs == RowStrings(range.inner[k])
  IN IF inc.overflow /\ checks THEN LoadPanic
     ELSE IF k > Len(range.inner) THEN NoResult
     ELSE IF U32Ge(U32(CountCols(strs)), min_cols)
       THEN LoadOk([header |-> HeaderCollect(strs), range |-> range,
                    first_row |-> inc.v, last_row |-> last_row,
                    first_col |-> first_col, last_col |-> last_col])
       ELSE LocateLoop(range, inc.v, first_col, last_row, last_col, min_cols,
                       k + 1, checks)

(* Sheets::worksheet_range: None for an unknown name, else the decoder's   *)
(* result for that sheet.                                                  *)
WorksheetRange(wb, sheet_name) ==
  IF \E k \in 1..Len(wb.names) : wb.names[k] = sheet_name
    THEN SomeV(wb.sheets[CHOOSE k \in 1..Len(wb.names) : wb.names[k] = sheet_name])
    ELSE NoneV

(* Option<Result<Self, LoadError>>: NoResult is None. *)
FromWorkbookSheetName(wb, sheet_name, checks) ==
  LET got == WorksheetRange(wb, sheet_name)
  IN IF ~got.some THEN NoResult
     ELSE IF got.v.tag = "Err" THEN CalamineError(got.v.err)
     ELSE LET range == got.v.range
              s == RangeStart(range)
              e == RangeEnd(range)
              width == U32Sub(e.v[2], s.v[2])
              min_cols == U32Add(width.v, 1)
          IN IF ~s.some \/ ~e.some THEN NoResult
             ELSE IF checks /\ (width.overflow \/ min_cols.overflow) THEN LoadPanic
             ELSE LocateLoop(range, s.v[1], s.v[2], e.v[1], e.v[2], min_cols.v,
                             1, checks)

(* The for loop of from_path over sheet_names(), from position k. *)
RECURSIVE FromPathLoop(_, _, _, _)
FromPathLoop(wb, filename, k, checks) ==
  IF k > Len(wb.names) THEN LoadEmpty(filename)
  ELSE LET r == FromWorkbookSheetName(wb, wb.names[k], checks)
       IN IF r.tag \in {"Ok", "Panic"} THEN r
          ELSE FromPathLoop(wb, filename, k + 1, checks)

FromPathFn(wb, filename, checks) ==
  IF wb.open # "" THEN CalamineError(wb.open)
  ELSE FromPathLoop(wb, filename, 1, checks)

FromPathWithSheetNameFn(wb, filename, sheet_name, checks) ==
  IF wb.open # "" THEN CalamineError(wb.open)
  ELSE LET r == FromWorkbookSheetName(wb, sheet_name, checks)
       IN CASE r.tag \in {"Ok", "Panic"} -> r
            [] r.tag = "CalamineError" -> CalamineError(r.err)
            [] OTHER -> LoadEmptySheet(filename, sheet_name)

(* --------------------------- WorkbookData ------------------------------ *)
(* WorkbookData::get *)
Get(data, row_number, column_header) ==
  IF U32Lt(row_number, data.first_row) \/ U32Gt(row_number, data.last_row)
    THEN NoneV
  ELSE IF column_header \notin DOMAIN data.header THEN NoneV
  ELSE LET value == RangeGetValue(data.range, row_number,
                                  data.header[column_header])
       IN IF ~value.some THEN NoneV ELSE SomeV(to_string(value.v))

(* Variant: the filter on non-empty values is missing, so any present     *)
(* cell makes the row count as filled.                                    *)
IsRowEmpty_AnyValue(data, row_number) ==
  0 = Cardinality({h \in DOMAIN data.header : Get(data, row_number, h).some})

(* WorkbookData::is_row_empty: counts the keys with a non-empty value. *)
IsRowEmpty(data, row_number) ==
  0 = Cardinality({h \in DOMAIN data.header :
                     /\ Get(data, row_number, h).some
                     /\ Get(data, row_number, h).v # StrEmpty})

(* WorkbookData::iter_rows *)
IterRowsFn(data) ==
  [source |-> data, current_row |-> data.first_row, last_row |-> data.last_row,
   first_col |-> data.first_col, last_col |-> data.last_col]

(* ---------------------- RowsIterator and RowData ----------------------- *)
RowData(source, row_number) == [source |-> source, row_number |-> row_number]

(* Variant: the row is advanced before the test, and the end is tested by *)
(* equality, so a call after the end passes the test again.               *)
RowsIteratorNext_EqualityEnd(it, checks) ==
  LET moved == [it EXCEPT !.current_row = U32Add(@, 1).v]
  IN IF moved.current_row = U32Add(it.last_row, 2).v
       THEN [it |-> moved, item |-> NoneV, panic |-> FALSE]
       ELSE [it |-> moved, panic |-> FALSE,
             item |-> SomeV([source |-> it.source,
                             row_number |-> moved.current_row])]

(* RowsIterator::next: the iterator after the call, the item returned, and *)
(* whether `current_row += 1` panicked instead.                            *)
RowsIteratorNext(it, checks) ==
  LET inc == U32Add(it.current_row, 1)
      moved == [it EXCEPT !.current_row = inc.v]
  IN IF U32Gt(it.current_row, it.last_row)
       THEN [it |-> it, item |-> NoneV, panic |-> FALSE]
     ELSE IF inc.overflow /\ checks
       THEN [it |-> it, item |-> NoneV, panic |-> TRUE]
     ELSE [it |-> moved, item |-> SomeV(RowData(it.source, moved.current_row)),
           panic |-> FALSE]

(* The handles a for loop over an iterator receives, from state it on. *)
RECURSIVE Drain(_, _)
Drain(it, checks) ==
  LET step == RowsIteratorNext(it, checks)
  IN IF ~step.item.some THEN <<>> ELSE <<step.item.v>> \o Drain(step.it, checks)

ValueOk(s) == [tag |-> "Ok", value |-> s, key |-> StrEmpty, num |-> 0]
ParsedOk(n) == [tag |-> "Ok", value |-> StrEmpty, key |-> StrEmpty, num |-> n]
NoValue(k) == [tag |-> "NoValue", value |-> StrEmpty, key |-> k, num |-> 0]
ParseError(k, v) == [tag |-> "ParseError", value |-> v, key |-> k, num |-> 0]

(* RowData::number *)
RowDataNumber(rd) == rd.row_number

(* RowData::get *)
RowDataGet(rd, column_header) ==
  LET got == Get(rd.source, rd.row_number, column_header)
  IN IF got.some THEN ValueOk(got.v) ELSE NoValue(column_header)

(* Variant: a failed conversion is reported as a missing value. *)
RowDataParse_NoValue(rd, column_header) ==
  LET got == Get(rd.source, rd.row_number, column_header)
  IN IF ~got.some THEN NoValue(column_header)
     ELSE IF ParseI32(got.v).ok THEN ParsedOk(ParseI32(got.v).v)
     ELSE NoValue(column_header)

(* RowData::parse::<i32> *)
RowDataParse(rd, column_header) ==
  LET value_str == RowDataGet(rd, column_header)
  IN IF value_str.tag # "Ok" THEN value_str
     ELSE LET p == ParseI32(value_str.value)
          IN IF p.ok THEN ParsedOk(p.v)
             ELSE ParseError(column_header, value_str.value)

(* RowData::is_empty *)
RowDataIsEmpty(rd) == IsRowEmpty(rd.source, rd.row_number)

(* ------------------------------ inputs --------------------------------- *)
DecodeOk(range) == [tag |-> "Ok", range |-> range, err |-> ""]
DecodeErr(e) == [tag |-> "Err", range |-> EmptyRange, err |-> e]

Shapes == {hw \in (1..MaxRows) \X (1..MaxCols) : hw[1] * hw[2] <= MaxCells}

GridsOf(values) == UNION {[1..hw[1] -> [1..hw[2] -> values]] : hw \in Shapes}

(* Where a grid is put: its first row or column at 0 or at MaxStart, or    *)
(* its last row `gap` rows below row 2^32 - 1.                             *)
LowStarts == {U32(0), U32(MaxStart)}
Low(n) == [top |-> FALSE, n |-> n]
Top(gap) == [top |-> TRUE, n |-> gap]
FirstRow(place, h) == IF place.top THEN U32Sub(U32Max, U32(h - 1 + place.n)).v
                      ELSE U32(place.n)

Paths == {"a.xlsx", "b.xls"}
SheetNames == <<"Sheet1", "Sheet2", "Sheet3", "Sheet4">>

(* The sheet names asked of a workbook: its own, and one it lacks. *)
SheetArgs(wb) == {SheetNames[k] : k \in 1..(Len(wb.names) + 1)}

Workbook(open, sheets) ==
  [open |-> open, names |-> SubSeq(SheetNames, 1, Len(sheets)), sheets |-> sheets]

(* Loads of one sheet: grids of empty cells and two names, near row 0 and  *)
(* ending at or just below the last row.                                   *)
LoadCellValues == {DEmpty, DString(StrA), DString(StrB)}

Ranges ==
  {MkRange(FirstRow(place, Len(g)), c0, g) :
     place \in {Low(0), Low(MaxStart), Top(0), Top(MaxTopGap)},
     c0 \in LowStarts, g \in GridsOf(LoadCellValues)}

RangeWorkbooks == {Workbook("", <<DecodeOk(r)>>) : r \in Ranges}

(* Loads of several sheets: each sheet fails to decode, is empty, has a    *)
(* header row, or has none.                                                *)
SheetSamples ==
  {DecodeErr("e1"), DecodeErr("e2"), DecodeOk(EmptyRange),
   DecodeOk(MkRange(U32(0), U32(0), <<<<DString(StrA)>>>>)),
   DecodeOk(MkRange(U32(0), U32(0), <<<<DString(StrB), DEmpty>>>>)),
   DecodeOk(MkRange(U32Max, U32(0), <<<<DString(StrB), DEmpty>>>>)),
   DecodeOk(MkRange(U32(1), U32(0),
                    <<<<DEmpty, DInt(42)>>, <<DString(StrA), DString(StrB)>>>>))}

SampleWorkbooks ==
  {Workbook("open failed", <<>>)} \cup
  UNION {{Workbook("", s) : s \in [1..n -> SheetSamples]} : n \in 0..MaxSheets}

(* Lookups: cells that are empty, text or a number; bounding boxes that    *)
(* start at column 0 and at column MaxStart, at row 0 and with the last    *)
(* row MaxTopGap below row 2^32 - 1.                                       *)
ViewCellValues == {DEmpty, DString(StrA), DInt(42)}

ViewWorkbooks ==
  {Workbook("", <<DecodeOk(MkRange(FirstRow(place, Len(g)), c0, g))>>) :
     place \in {Low(0), Top(MaxTopGap)},
     c0 \in LowStarts, g \in GridsOf(ViewCellValues)}

(* Row iteration depends on where the header row is and on where the grid  *)
(* is: every row is full or blank.                                         *)
FullRow(w) == [c \in 1..w |-> DString(StrA)]
BlankRow(w) == [c \in 1..w |-> DEmpty]

IterGrids ==
  UNION {[1..hw[1] -> {FullRow(hw[2]), BlankRow(hw[2])}] : hw \in Shapes}

IterWorkbooks ==
  {Workbook("", <<DecodeOk(MkRange(FirstRow(place, Len(g)), c0, g))>>) :
     place \in {Low(0), Low(MaxStart), Top(0), Top(MaxTopGap)},
     c0 \in LowStarts, g \in IterGrids}

(* Rows asked of a view: the rows of its sheet and the one after them. *)
RowArgs(data) ==
  {U32Add(data.range.start[1], k).v : k \in 0..Len(data.range.inner)}

(* Column names asked of a view: a text and a number. *)
NameArgs == {StrA, FmtInt(42)}

(* ------------------------------ actions -------------------------------- *)
(* out records the last call: its name, its arguments and what it returned *)
(* (the value returned by a load is kept in result).                       *)
Out(op, sheet, row, name, it, ret) ==
  [op |-> op, sheet |-> sheet, row |-> row, name |-> name, it |-> it, ret |-> ret]

NoOut == Out("none", "", U32Zero, StrEmpty, 0, NoneV)

InitWith(workbooks, paths, builds) ==
  /\ path \in paths
  /\ workbook \in workbooks
  /\ overflow_checks \in builds
  /\ pc = "start"
  /\ result = NoResult
  /\ iters = <<>>
  /\ out = NoOut

Init == InitWith(SampleWorkbooks \cup RangeWorkbooks, Paths, BOOLEAN)

InitView == InitWith(ViewWorkbooks, {"a.xlsx"}, BOOLEAN)

InitIter == InitWith(IterWorkbooks, {"a.xlsx"}, BOOLEAN)

(* A call that panics ends the program. *)
AfterLoad(r) == IF r.tag = "Panic" THEN "panicked" ELSE "loaded"

FromPath ==
  /\ pc = "start"
  /\ result' = FromPathFn(workbook, path, overflow_checks)
  /\ out' = Out("from_path", "", U32Zero, StrEmpty, 0, NoneV)
  /\ pc' = AfterLoad(result')
  /\ UNCHANGED <<path, workbook, overflow_checks, iters>>

FromPathWithSheetName ==
  /\ pc = "start"
  /\ \E sheet_name \in SheetArgs(workbook) :
       /\ result' = FromPathWithSheetNameFn(workbook, path, sheet_name,
                                            overflow_checks)
       /\ out' = Out("from_path_with_sheet_name", sheet_name, U32Zero, StrEmpty,
                     0, NoneV)
  /\ pc' = AfterLoad(result')
  /\ UNCHANGED <<path, workbook, overflow_checks, iters>>

HasView == pc = "loaded" /\ result.tag = "Ok"

IterRows ==
  /\ HasView
  /\ Len(iters) < MaxIters
  /\ iters' = Append(iters, [it |-> IterRowsFn(result.data), yielded |-> <<>>,
                             ended |-> FALSE])
  /\ out' = Out("iter_rows", "", U32Zero, StrEmpty, Len(iters) + 1, NoneV)
  /\ UNCHANGED <<path, workbook, overflow_checks, pc, result>>

(* One call of next() on iterator i, of at most MaxYield items; yielded    *)
(* and ended keep what the calls on that iterator have returned so far.    *)
IterNext ==
  /\ HasView
  /\ \E i \in 1..Len(iters) :
       LET step == RowsIteratorNext(iters[i].it, overflow_checks)
       IN /\ Len(iters[i].yielded) < MaxYield
          /\ iters' = [iters EXCEPT ![i] =
                         [it |-> step.it,
                          yielded |-> IF step.item.some
                                        THEN Append(@.yielded, RowDataNumber(step.item.v))
                                        ELSE @.yielded,
                          ended |-> @.ended \/ (~step.item.some /\ ~step.panic)]]
          /\ out' = Out("next", "", U32Zero, StrEmpty, i, step.item)
          /\ pc' = IF step.panic THEN "panicked" ELSE pc
  /\ UNCHANGED <<path, workbook, overflow_checks, result>>

DoGet ==
  /\ HasView
  /\ \E row \in RowArgs(result.data), name \in NameArgs :
       out' = Out("get", "", row, name, 0, Get(result.data, row, name))
  /\ UNCHANGED <<path, workbook, overflow_checks, pc, result, iters>>

DoIsRowEmpty ==
  /\ HasView
  /\ \E row \in RowArgs(result.data) :
       out' = Out("is_row_empty", "", row, StrEmpty, 0, IsRowEmpty(result.data, row))
  /\ UNCHANGED <<path, workbook, overflow_checks, pc, result, iters>>

(* The handles of a loop `for row in data.iter_rows()`. *)
Handles == LET hs == Drain(IterRowsFn(result.data), overflow_checks)
           IN {hs[k] : k \in 1..Len(hs)}

DoRowGet ==
  /\ HasView
  /\ \E rd \in Handles, name \in NameArgs :
       out' = Out("row_get", "", RowDataNumber(rd), name, 0, RowDataGet(rd, name))
  /\ UNCHANGED <<path, workbook, overflow_checks, pc, result, iters>>

DoRowParse ==
  /\ HasView
  /\ \E rd \in Handles, name \in NameArgs :
       out' = Out("row_parse", "", RowDataNumber(rd), name, 0, RowDataParse(rd, name))
  /\ UNCHANGED <<path, workbook, overflow_checks, pc, result, iters>>

DoRowIsEmpty ==
  /\ HasView
  /\ \E rd \in Handles :
       out' = Out("row_is_empty", "", RowDataNumber(rd), StrEmpty, 0, RowDataIsEmpty(rd))
  /\ UNCHANGED <<path, workbook, overflow_checks, pc, result, iters>>

NextLoad == FromPath \/ FromPathWithSheetName

NextIter == FromPath \/ FromPathWithSheetName \/ IterRows \/ IterNext

NextRows == \/ FromPath \/ FromPathWithSheetName
            \/ DoGet \/ DoIsRowEmpty \/ DoRowGet \/ DoRowParse \/ DoRowIsEmpty

SpecLoad == Init /\ [][NextLoad]_vars

SpecIter == InitIter /\ [][NextIter]_vars

SpecRows == InitView /\ [][NextRows]_vars

(* =========================== properties ================================ *)
(* What the claims speak of, stated over the decoded grid itself.          *)
Width(range) == Len(range.inner[1])

(* Every bounding-box column of grid row k has a non-empty string form. *)
IsFullRow(range, k) ==
  \A c \in 1..Width(range) : to_string(range.inner[k][c]) # StrEmpty

(* Row k has fewer non-empty cells than the bounding box is wide. *)
IsSparseRow(range, k) ==
  Cardinality({c \in 1..Len(range.inner[k]) :
                 to_string(range.inner[k][c]) # StrEmpty}) < Width(range)

Locatable(range) ==
  /\ range.inner # <<>>
  /\ \E k \in 1..Len(range.inner) : IsFullRow(range, k)

(* Number of leading sparse rows before the first full row. *)
LeadingRows(range) ==
  (CHOOSE k \in 1..Len(range.inner) :
     IsFullRow(range, k) /\ \A j \in 1..(k - 1) : IsSparseRow(range, j)) - 1

(* The strings of the first full row. *)
HeaderRowOf(range) == RowStrings(range.inner[LeadingRows(range) + 1])

(* The number of the grid's k-th row. *)
RowNumber(range, k) == U32Add(range.start[1], k - 1).v

HasSheet(name) == \E k \in 1..Len(workbook.names) : workbook.names[k] = name
SheetOf(name) ==
  workbook.sheets[CHOOSE k \in 1..Len(workbook.names) : workbook.names[k] = name]

(* The last call was load `op` on a workbook that opened; it returned or   *)
(* panicked.                                                               *)
Called(op) == pc \in {"loaded", "panicked"} /\ out.op = op /\ workbook.open = ""

(* A load that read exactly one sheet, and that sheet decoded to a grid. *)
ReadOneSheet ==
  \/ Called("from_path_with_sheet_name") /\ HasSheet(out.sheet)
       /\ SheetOf(out.sheet).tag = "Ok"
  \/ Called("from_path") /\ Len(workbook.names) = 1
       /\ workbook.sheets[1].tag = "Ok"

ReadRange == IF out.op = "from_path" THEN workbook.sheets[1].range
             ELSE SheetOf(out.sheet).range

(* C3: N >= 0 leading sparse rows followed by a full row: the full row is  *)
(* the header; the column map has exactly that row's strings as keys, each *)
(* mapped to a column carrying it; first_row is the number of the header   *)
(* row plus one, and when the grid has a row after the header, get_value   *)
(* reads that row at first_row; last_row, first_col and last_col are the   *)
(* grid's bounds.                                                          *)
C3_HeaderLocated ==
  (ReadOneSheet /\ Locatable(ReadRange)) =>
    LET range == ReadRange
        n == LeadingRows(range)
        hdr == range.inner[n + 1]
        d == result.data
    IN /\ result.tag = "Ok"
       /\ d.range = range
       /\ DOMAIN d.header = {to_string(hdr[c]) : c \in 1..Len(hdr)}
       /\ \A name \in DOMAIN d.header :
            /\ d.header[name] \in {U32(c - 1) : c \in 1..Len(hdr)}
            /\ to_string(hdr[U32ToNat(d.header[name]) + 1]) = name
       /\ U32Add(RowNumber(range, n + 1), 1) = [v |-> d.first_row, overflow |-> FALSE]
       /\ d.last_row = range.end[1]
       /\ d.first_col = range.start[2]
       /\ d.last_col = range.end[2]
       /\ (n + 2 <= Len(range.inner) =>
             \A c \in 1..Width(range) :
               RangeGetValue(d.range, d.first_row, U32Add(d.first_col, c - 1).v)
                 = SomeV(range.inner[n + 2][c]))

(* C5: from_path returns the view of the first sheet, in sheet-name order, *)
(* whose header can be located, and LoadError::Empty with the file path    *)
(* exactly when there is no such sheet (also for zero sheets).             *)
SheetLocatable(k) ==
  workbook.sheets[k].tag = "Ok" /\ Locatable(workbook.sheets[k].range)

C5_FirstLocatableSheet ==
  Called("from_path") =>
    IF \E k \in 1..Len(workbook.names) : SheetLocatable(k)
      THEN LET first == CHOOSE k \in 1..Len(workbook.names) :
                          SheetLocatable(k) /\ \A j \in 1..(k - 1) : ~SheetLocatable(j)
           IN /\ result.tag = "Ok"
              /\ result.data.range = workbook.sheets[first].range
      ELSE result = LoadEmpty(path)

(* C6: no load panics; a sheet with no rows, or with no full row, makes    *)
(* from_path_with_sheet_name return EmptySheet with the file name and the  *)
(* sheet name, and a view is returned only for a sheet that has a full     *)
(* row.                                                                    *)
C6_NoHeaderIsEmptySheet ==
  /\ pc # "panicked" /\ result.tag # "Panic"
  /\ (Called("from_path_with_sheet_name") /\ HasSheet(out.sheet)
        /\ SheetOf(out.sheet).tag = "Ok") =>
       IF Locatable(SheetOf(out.sheet).range)
         THEN result.tag = "Ok"
         ELSE result = LoadEmptySheet(path, out.sheet)

(* C7: a name carried by several header columns has one entry in the map,  *)
(* the offset of its right-most column.                                    *)
C7_LastDuplicateWins ==
  (pc = "loaded" /\ result.tag = "Ok") =>
    LET d == result.data
        hdr == HeaderRowOf(d.range)
    IN /\ DOMAIN d.header = {hdr[k] : k \in 1..Len(hdr)}
       /\ \A k \in 1..Len(hdr) :
            d.header[hdr[k]] = U32((CHOOSE m \in 1..Len(hdr) :
                                      /\ hdr[m] = hdr[k]
                                      /\ \A j \in (m + 1)..Len(hdr) : hdr[j] # hdr[k]) - 1)

C7_Witness ==
  /\ pc = "loaded" /\ result.tag = "Ok"
  /\ HeaderRowOf(result.data.range) = <<StrA, StrB, StrA>>
  /\ result.data.header[StrA] = U32(2)
  /\ result.data.header[StrB] = U32(1)
  /\ Cardinality(DOMAIN result.data.header) = 2

(* C4: a decoder error met while a load reads a sheet is what the load     *)
(* returns, for from_path and for from_path_with_sheet_name.               *)
(* Sheets from_path reads: up to and including the first locatable one. *)
SheetsRead ==
  {k \in 1..Len(workbook.names) : \A j \in 1..(k - 1) : ~SheetLocatable(j)}

C4_DecoderErrorPropagates ==
  /\ (Called("from_path_with_sheet_name") /\ HasSheet(out.sheet)
        /\ SheetOf(out.sheet).tag = "Err") =>
       result = CalamineError(SheetOf(out.sheet).err)
  /\ (Called("from_path") /\ \E k \in SheetsRead : workbook.sheets[k].tag = "Err") =>
       /\ result.tag = "CalamineError"
       /\ \E k \in SheetsRead : /\ workbook.sheets[k].tag = "Err"
                                /\ result.err = workbook.sheets[k].err

(* --------------------------- row iteration ----------------------------- *)
IsPrefix(s, u) == Len(s) <= Len(u) /\ \A k \in 1..Len(s) : s[k] = u[k]

(* C1: the row numbers an iterator yields are first_row, first_row + 1,    *)
(* ... in this order, none outside [first_row, last_row]; once it has      *)
(* returned None they end with last_row, or are none at all when           *)
(* first_row is past last_row.                                             *)
C1_RowNumbers ==
  (pc \in {"loaded", "panicked"} /\ result.tag = "Ok") =>
    \A i \in 1..Len(iters) :
      LET d == result.data
          ys == iters[i].yielded
      IN /\ \A k \in 1..Len(ys) :
              /\ U32Add(d.first_row, k - 1) = [v |-> ys[k], overflow |-> FALSE]
              /\ U32Ge(ys[k], d.first_row) /\ U32Ge(d.last_row, ys[k])
         /\ iters[i].ended =>
              IF U32Gt(d.first_row, d.last_row) THEN ys = <<>>
              ELSE ys # <<>> /\ ys[Len(ys)] = d.last_row

(* C10: calls of iter_rows and next leave the view as it was, every        *)
(* iterator refers to that view, all iterators yield the same sequence     *)
(* however far the others have advanced, and an iterator that has returned *)
(* None returns None from then on.                                         *)
C10_Restartable ==
  [][HasView =>
       /\ result' = result
       /\ \A i \in 1..Len(iters') : iters'[i].it.source = result.data
       /\ \A i \in 1..Len(iters) :
            iters[i].ended =>
              /\ iters'[i].ended
              /\ iters'[i].yielded = iters[i].yielded
              /\ (out'.op = "next" /\ out'.it = i) => ~out'.ret.some
       /\ \A i, j \in 1..Len(iters') :
            /\ IsPrefix(iters'[i].yielded, iters'[j].yielded)
                 \/ IsPrefix(iters'[j].yielded, iters'[i].yielded)
            /\ iters'[j].ended => IsPrefix(iters'[i].yielded, iters'[j].yielded)]_vars

C10_Witness ==
  /\ HasView
  /\ Len(iters) = 2
  /\ iters[1].ended /\ Len(iters[1].yielded) >= 2
  /\ iters[2].ended /\ iters[2].yielded = iters[1].yielded
  /\ out.op = "next" /\ ~out.ret.some

(* ---------------------------- cell lookup ------------------------------ *)
(* C2: get returns nothing for a row outside [first_row, last_row] or an   *)
(* unknown name, and otherwise the string of the grid cell at that row in  *)
(* a column whose header cell carries the name.                            *)
C2_GetByHeaderName ==
  (HasView /\ out.op = "get") =>
    LET d == result.data
        hdr == HeaderRowOf(d.range)
    IN IF \/ U32Lt(out.row, d.first_row) \/ U32Gt(out.row, d.last_row)
          \/ out.name \notin DOMAIN d.header
         THEN out.ret = NoneV
         ELSE \E c \in 1..Len(hdr) :
                /\ hdr[c] = out.name
                /\ out.ret = SomeV(to_string(
                     d.range.inner[U32ToNat(U32Sub(out.row, d.range.start[1]).v) + 1][c]))

(* C8: is_row_empty(row) holds exactly when get(row, name) is nothing or   *)
(* the empty string for every name of the column map, for rows inside and  *)
(* outside the view; RowData::is_empty gives the same for its own row.     *)
AllBlank(d, row) ==
  \A name \in DOMAIN d.header :
    ~Get(d, row, name).some \/ Get(d, row, name).v = StrEmpty

C8_RowEmptyIffAllBlank ==
  (HasView /\ out.op \in {"is_row_empty", "row_is_empty"}) =>
    (out.ret <=> AllBlank(result.data, out.row))

C8_Witness ==
  /\ HasView /\ out.op = "is_row_empty"
  /\ U32Ge(out.row, result.data.first_row) /\ U32Ge(result.data.last_row, out.row)
  /\ out.ret = TRUE
  /\ \E name \in DOMAIN result.data.header :
       Get(result.data, out.row, name) = SomeV(StrEmpty)

(* C9: RowData::get gives NoValue(name) exactly when the view's get gives  *)
(* nothing and the cell's string otherwise; parse gives NoValue in the     *)
(* same cases, ParseError with the name and the raw string when the string *)
(* is no integer ("A", the empty string), and the number otherwise ("42"). *)
C9_RowErrors ==
  (HasView /\ out.op \in {"row_get", "row_parse"}) =>
    LET g == Get(result.data, out.row, out.name)
    IN /\ out.op = "row_get" =>
            out.ret = IF g.some THEN ValueOk(g.v) ELSE NoValue(out.name)
       /\ out.op = "row_parse" =>
            /\ ~g.some => out.ret = NoValue(out.name)
            /\ g.some =>
                 /\ out.ret.tag \in {"Ok", "ParseError"}
                 /\ out.ret.tag = "Ok" <=> ParseI32(g.v).ok
                 /\ out.ret.tag = "Ok" => out.ret = ParsedOk(ParseI32(g.v).v)
                 /\ out.ret.tag = "ParseError" => out.ret = ParseError(out.name, g.v)
                 /\ g.v = <<"4", "2">> => out.ret = ParsedOk(42)
                 /\ g.v \in {StrA, StrEmpty} => out.ret.tag = "ParseError"

C9_Witness ==
  /\ HasView /\ out.op = "row_parse"
  /\ out.ret = ParseError(StrA, StrA)
====
